---- MODULE Spec2Model ----
(***************************************************************************)
(* The check-for-tag lint rule (src/src/checkForTagRule.ts): the walk over *)
(* a source file's syntax tree, the classification of identifiers into     *)
(* declaration sites and references, and the resolution of a reference to  *)
(* the documentation tags of the signature or symbol it denotes.           *)
(*                                                                         *)
(* JavaScript values: a string is a sequence of one-character strings, an  *)
(* array is a sequence, `undefined` is the record Undefined, and a value   *)
(* of a type that admits `undefined` and is not itself a record is wrapped *)
(* as Def(v). A thrown TypeError is the record Crash.                      *)
(***************************************************************************)
EXTENDS Integers, Sequences, FiniteSets, TLC

VARIABLES
    options,        \* the module-level `var options` (line 26)
    ruleArguments,  \* this.ruleArguments of the rule instance being applied
    sourceFile,     \* ctx.sourceFile: the syntax tree, a sequence of nodes
    tc,             \* the ts.TypeChecker of the program
    todo,           \* nodes on which cb is still to be called, in call order
    failures,       \* ctx.failures, in the order addFailureAtNode was called
    visited,        \* history: the nodes cb was called on, in order
    resolved,       \* history: the calls of getUnwantedTags and what they read
    pc,             \* "idle" | "walking" | "done" | "crashed" | "pure" | "returned"
    runs,           \* the number of applyWithProgram calls so far
    history,        \* history: the ruleArguments of the earlier calls
    call,           \* the pending call of a function applied on its own
    ret             \* its result

vars == <<options, ruleArguments, sourceFile, tc, todo, failures, visited,
          resolved, pc, runs, history, call, ret>>

\* Bounds of the model.
MaxRuns == 2
MaxTags == 2
MaxText == 3

Undefined == [undefined |-> TRUE]
Crash == [crash |-> TRUE]
Def(v) == [value |-> v]

Range(s) == {s[i] : i \in 1..Len(s)}

SeqsUpTo(S, n) == UNION {[1..k -> S] : k \in 0..n}

(***************************************************************************)
(* Strings.                                                                *)
(***************************************************************************)
\* The characters String.prototype.trim removes, among those of the model.
WhiteSpace == {" ", "\t"}

RECURSIVE trimStart(_)
trimStart(s) ==
    IF s # <<>> /\ Head(s) \in WhiteSpace THEN trimStart(Tail(s)) ELSE s

RECURSIVE trimEnd(_)
trimEnd(s) ==
    IF s # <<>> /\ s[Len(s)] \in WhiteSpace
    THEN trimEnd(SubSeq(s, 1, Len(s) - 1))
    ELSE s

trim(s) == trimEnd(trimStart(s))

FailurePrefix == <<"Found disallowed tag at ">>

FAILURE_STRING_TrimFirst(name, message) ==
    FailurePrefix \o name \o
        (IF trim(message) = <<>> THEN <<".">> ELSE <<":", " ">> \o trim(message))

FAILURE_STRING(name, message) ==
    FailurePrefix \o name \o
        (IF message = <<>> THEN <<".">> ELSE <<":", " ">> \o trim(message))

(***************************************************************************)
(* Rule options.                                                           *)
(***************************************************************************)
\* args[i] of a JavaScript array: undefined past its end.
Index(args, i) == IF i + 1 <= Len(args) THEN args[i + 1] ELSE Undefined

\* `for (const arg of x)`: the elements of an array, the characters of a
\* string, each of them a string.
Iterate(x) ==
    IF x.type = "string" THEN [i \in 1..Len(x.chars) |-> <<x.chars[i]>>] ELSE x.value

\* JavaScript truthiness of a rule argument.
Truthy(x) ==
    /\ x # Undefined
    /\ x.type = "boolean" => x.value
    /\ x.type = "string" => x.chars # <<>>

parseOptions_KeepStale(old, args) ==
    IF args # Undefined /\ Truthy(Index(args.value, 1))
    THEN [tags |-> Iterate(Index(args.value, 1))]
    ELSE old

parseOptions(old, args) ==
    LET parsedOptions ==
            IF args # Undefined /\ Truthy(Index(args.value, 1))
            THEN Iterate(Index(args.value, 1))
            ELSE <<>>
    IN [tags |-> parsedOptions]

(***************************************************************************)
(* The match test.                                                         *)
(***************************************************************************)
\* options.tags.includes(name); reading `tags` of an undefined `options` throws.
includes(opts, name) ==
    IF opts = Undefined THEN Crash
    ELSE Def(\E k \in 1..Len(opts.tags) : opts.tags[k] = name)

RECURSIVE findFrom(_, _, _)
findFrom(opts, tags, i) ==
    IF i > Len(tags) THEN Undefined
    ELSE IF includes(opts, tags[i].name) = Crash THEN Crash
    ELSE IF includes(opts, tags[i].name).value
         THEN (IF tags[i].text = Undefined THEN Def(<<>>) ELSE tags[i].text)
         ELSE findFrom(opts, tags, i + 1)

\* The scan led by the configured names instead of the fetched tags.
RECURSIVE findByOption(_, _, _)
findByOption(opts, tags, k) ==
    IF k > Len(opts.tags) THEN Undefined
    ELSE LET hits == {i \in 1..Len(tags) : tags[i].name = opts.tags[k]}
         IN IF hits = {} THEN findByOption(opts, tags, k + 1)
            ELSE LET i == CHOOSE i \in hits : \A j \in hits : i <= j
                 IN IF tags[i].text = Undefined THEN Def(<<>>) ELSE tags[i].text

findUnwantedTagsTag_OptionOrder(opts, tags) ==
    IF tags # <<>> /\ opts = Undefined THEN Crash
    ELSE IF tags = <<>> THEN Undefined
    ELSE findByOption(opts, tags, 1)

findUnwantedTagsTag(opts, tags) == findFrom(opts, tags, 1)

(***************************************************************************)
(* The syntax tree. A node is [kind, parent, slot, text]: `parent` is the  *)
(* index of its parent in the tree (0 for the source file), `slot` the     *)
(* property of the parent that holds it ("name", "propertyName",           *)
(* "initializer", "expression", "tag", "left", "right", or "child" for     *)
(* any other), `text` the text of an identifier or of an operator token.   *)
(* Nodes are numbered in source order, so a node's children are in order.  *)
(***************************************************************************)
Node(kind, parent, slot, text) ==
    [kind |-> kind, parent |-> parent, slot |-> slot, text |-> text]

Children(t, n) ==
    LET ids == {i \in 1..Len(t) : t[i].parent = n}
        f[S \in SUBSET ids] ==
            IF S = {} THEN <<>>
            ELSE LET m == CHOOSE m \in S : \A j \in S : m <= j
                 IN <<m>> \o f[S \ {m}]
    IN f[ids]

\* parent.<slot>: the child in that slot, or undefined.
SlotOf(t, parent, slot) ==
    LET ids == {i \in 1..Len(t) : t[i].parent = parent /\ t[i].slot = slot}
    IN IF ids = {} THEN Undefined ELSE Def(CHOOSE i \in ids : TRUE)

isIdentifier(t, n) == t[n].kind = "Identifier"

\* tsutils isInDestructuringAssignment, on the node kinds of the model.
RECURSIVE inDestructuringLoop(_, _)
inDestructuringLoop(t, node) ==
    LET parent == t[node].parent
    IN CASE t[parent].kind = "BinaryExpression" ->
                SlotOf(t, parent, "left") = Def(node) /\ t[parent].text = <<"=">>
         [] t[parent].kind \in {"ArrayLiteralExpression", "ObjectLiteralExpression"} ->
                inDestructuringLoop(t, parent)
         [] t[parent].kind \in {"PropertyAssignment", "SpreadAssignment"} ->
                inDestructuringLoop(t, t[parent].parent)
         [] OTHER -> FALSE

isInDestructuringAssignment(t, node) ==
    IF t[node].kind \in {"ShorthandPropertyAssignment", "PropertyAssignment",
                         "SpreadAssignment"}
    THEN inDestructuringLoop(t, t[node].parent)
    ELSE inDestructuringLoop(t, node)

\* tsutils isReassignmentTarget, on the node kinds of the model.
RECURSIVE isReassignmentTarget(_, _)
isReassignmentTarget(t, node) ==
    LET parent == t[node].parent
    IN CASE t[parent].kind \in {"PostfixUnaryExpression", "DeleteExpression"} -> TRUE
         [] t[parent].kind = "BinaryExpression" ->
                SlotOf(t, parent, "left") = Def(node) /\ t[parent].text = <<"=">>
         [] t[parent].kind = "ShorthandPropertyAssignment" ->
                SlotOf(t, parent, "name") = Def(node)
                /\ isInDestructuringAssignment(t, parent)
         [] t[parent].kind = "PropertyAssignment" ->
                SlotOf(t, parent, "initializer") = Def(node)
                /\ isInDestructuringAssignment(t, parent)
         [] t[parent].kind \in {"ArrayLiteralExpression", "SpreadElement",
                                "SpreadAssignment"} ->
                isInDestructuringAssignment(t, parent)
         [] t[parent].kind \in {"ParenthesizedExpression", "NonNullExpression",
                                "TypeAssertionExpression", "AsExpression"} ->
                isReassignmentTarget(t, parent)
         [] OTHER -> FALSE

(***************************************************************************)
(* Declaration sites.                                                      *)
(***************************************************************************)
NamedEntityKinds ==
    {"ClassDeclaration", "ClassExpression", "InterfaceDeclaration",
     "TypeParameter", "FunctionExpression", "FunctionDeclaration",
     "LabeledStatement", "JsxAttribute", "MethodDeclaration",
     "MethodSignature", "PropertySignature", "TypeAliasDeclaration",
     "GetAccessor", "SetAccessor", "EnumDeclaration", "ModuleDeclaration"}

NamedDeclarationKinds ==
    {"VariableDeclaration", "Parameter", "PropertyDeclaration", "EnumMember",
     "ImportEqualsDeclaration"}

isDeclaration(t, identifier) ==
    LET parent == t[identifier].parent
        isName == SlotOf(t, parent, "name") = Def(identifier)
    IN CASE t[parent].kind \in NamedEntityKinds -> TRUE
         [] t[parent].kind \in NamedDeclarationKinds -> isName
         [] t[parent].kind = "PropertyAssignment" ->
                isName /\ ~isReassignmentTarget(t, t[parent].parent)
         [] t[parent].kind = "BindingElement" ->
                isName /\ SlotOf(t, parent, "propertyName") # Undefined
         [] OTHER -> FALSE

(***************************************************************************)
(* Call targets.                                                           *)
(***************************************************************************)
getCallExpresion(t, node0) ==
    LET parent0 == t[node0].parent
        unwind == t[parent0].kind = "PropertyAccessExpression"
                  /\ SlotOf(t, parent0, "name") = Def(node0)
        node == IF unwind THEN parent0 ELSE node0
        parent == t[node].parent
    IN IF \/ t[parent].kind = "TaggedTemplateExpression"
          \/ /\ t[parent].kind \in {"CallExpression", "NewExpression"}
             /\ SlotOf(t, parent, "expression") = Def(node)
       THEN Def(parent)
       ELSE Undefined

(***************************************************************************)
(* Declarations, symbols and signatures, as the type checker hands them    *)
(* out. A declaration is [kind, jsDoc, parent]: jsDoc is what tsutils      *)
(* getJsDoc returns for it, a sequence of comments [tags], tags undefined  *)
(* or Def of a sequence of [tagName, comment]. A symbol is [flags, target, *)
(* declarations, getJsDocTags] and a signature [declaration, getJsDocTags]:*)
(* getJsDocTags is undefined before typescript 2.3.0 and otherwise Def of  *)
(* the sequence of [name, text] the method returns.                        *)
(***************************************************************************)
Declaration(kind, jsDoc, parent) ==
    [kind |-> kind, jsDoc |-> jsDoc, parent |-> parent]

getJsDoc(declaration) == declaration.jsDoc

\* tsutils getDeclarationOfBindingElement.
RECURSIVE bindingElementHost(_)
bindingElementHost(parent) ==
    IF parent.kind = "BindingElement"
    THEN bindingElementHost(parent.parent.parent)
    ELSE parent

getDeclarationOfBindingElement(node) == bindingElementHost(node.parent.parent)

RECURSIVE tagsOfComment(_, _, _)
tagsOfComment(opts, tags, i) ==
    IF i > Len(tags) THEN Undefined
    ELSE IF includes(opts, tags[i].tagName) = Crash THEN Crash
    ELSE IF includes(opts, tags[i].tagName).value
         THEN (IF tags[i].comment = Undefined THEN Def(<<>>) ELSE tags[i].comment)
         ELSE tagsOfComment(opts, tags, i + 1)

RECURSIVE commentsFrom(_, _, _)
commentsFrom(opts, comments, i) ==
    IF i > Len(comments) THEN Undefined
    ELSE IF comments[i].tags = Undefined THEN commentsFrom(opts, comments, i + 1)
    ELSE LET found == tagsOfComment(opts, comments[i].tags.value, 1)
         IN IF found # Undefined THEN found
            ELSE commentsFrom(opts, comments, i + 1)

getUnwantedTagsFromDeclaration(opts, declaration) ==
    commentsFrom(opts, getJsDoc(declaration), 1)

\* The declaration whose documentation is read for `declaration`.
documentedNode(declaration) ==
    LET d1 == IF declaration.kind = "BindingElement"
              THEN getDeclarationOfBindingElement(declaration)
              ELSE declaration
        d2 == IF d1.kind = "VariableDeclaration" THEN d1.parent ELSE d1
        d3 == IF d2.kind = "VariableDeclarationList" THEN d2.parent ELSE d2
    IN d3

RECURSIVE declarationsFrom(_, _, _)
declarationsFrom(opts, declarations, i) ==
    IF i > Len(declarations) THEN Undefined
    ELSE LET result == getUnwantedTagsFromDeclaration(
                           opts, documentedNode(declarations[i]))
         IN IF result # Undefined THEN result
            ELSE declarationsFrom(opts, declarations, i + 1)

getUnwantedTagsFromDeclarations(opts, declarations) ==
    IF declarations = Undefined THEN Undefined
    ELSE declarationsFrom(opts, declarations.value, 1)

getSymbolUnwantedTags(opts, symbol) ==
    IF symbol = Undefined THEN Crash
    ELSE IF symbol.getJsDocTags # Undefined
         THEN findUnwantedTagsTag(opts, symbol.getJsDocTags.value)
         ELSE getUnwantedTagsFromDeclarations(opts, symbol.declarations)

getSignatureUnwantedTags(opts, signature) ==
    IF signature = Undefined THEN Undefined
    ELSE IF signature.getJsDocTags # Undefined
         THEN findUnwantedTagsTag(opts, signature.getJsDocTags.value)
         ELSE IF signature.declaration = Undefined THEN Undefined
              ELSE getUnwantedTagsFromDeclaration(opts, signature.declaration)

FunctionOrMethodKinds ==
    {"MethodDeclaration", "FunctionDeclaration", "FunctionExpression",
     "MethodSignature"}

isFunctionOrMethod_Never(declarations) == FALSE

isFunctionOrMethod(declarations) ==
    IF declarations = Undefined \/ Len(declarations.value) = 0 THEN FALSE
    ELSE declarations.value[1].kind \in FunctionOrMethodKinds

(***************************************************************************)
(* The type checker: [resolvedSignature, symbolAt, typeAt], the answers to *)
(* the queries on the nodes of the source file.                            *)
(***************************************************************************)
getResolvedSignature(checker, callExpression) ==
    checker.resolvedSignature[callExpression]

getSymbolAtLocation(checker, node) == checker.symbolAt[node]

\* tc.getTypeAtLocation(pattern).getProperty(text)
getProperty(checker, pattern, text) ==
    IF text \in DOMAIN checker.typeAt[pattern]
    THEN checker.typeAt[pattern][text]
    ELSE Undefined

\* The property named as the identifier in the type of the object literal
\* that is the destructuring target.
getPropertySymbolOfDestructuringAssignment(checker, t, node) ==
    getProperty(checker, t[t[node].parent].parent, t[node].text)

getAliasedSymbol(checker, symbol) == symbol.target

(***************************************************************************)
(* The tag resolver.                                                       *)
(***************************************************************************)
lookupSymbol_AtLocationOnly(t, checker, node) == getSymbolAtLocation(checker, node)

lookupSymbol(t, checker, node) ==
    LET parent == t[node].parent
    IN IF t[parent].kind = "BindingElement"
       THEN getProperty(checker, t[parent].parent, t[node].text)
       ELSE IF \/ /\ t[parent].kind = "PropertyAssignment"
                  /\ SlotOf(t, parent, "name") = Def(node)
               \/ /\ t[parent].kind = "ShorthandPropertyAssignment"
                  /\ SlotOf(t, parent, "name") = Def(node)
                  /\ isReassignmentTarget(t, node)
            THEN getPropertySymbolOfDestructuringAssignment(checker, t, node)
            ELSE getSymbolAtLocation(checker, node)

unaliased_Never(checker, symbol) == symbol

unaliased(checker, symbol) ==
    IF symbol # Undefined /\ "Alias" \in symbol.flags
    THEN getAliasedSymbol(checker, symbol)
    ELSE symbol

stopsAtSymbol_NoUndefinedCheck(symbol, callExpression) ==
    callExpression # Undefined
    /\ isFunctionOrMethod(IF symbol = Undefined THEN Undefined ELSE symbol.declarations)

stopsAtSymbol(symbol, callExpression) ==
    \/ symbol = Undefined
    \/ callExpression # Undefined /\ isFunctionOrMethod(symbol.declarations)

getUnwantedTags(t, checker, opts, node) ==
    LET callExpression == getCallExpresion(t, node)
        result == IF callExpression # Undefined
                  THEN getSignatureUnwantedTags(
                           opts, getResolvedSignature(checker, callExpression.value))
                  ELSE Undefined
        symbol == unaliased(checker, lookupSymbol(t, checker, node))
    IN IF callExpression # Undefined /\ result # Undefined THEN result
       ELSE IF stopsAtSymbol(symbol, callExpression) THEN Undefined
       ELSE getSymbolUnwantedTags(opts, symbol)

(***************************************************************************)
(* The traversal: walk calls cb on every child of the source file, and cb  *)
(* on an identifier resolves it unless it is a declaration site, returns   *)
(* at an import or export node, and otherwise calls itself on every child. *)
(* cb never returns a truthy value, so ts.forEachChild never stops early.  *)
(***************************************************************************)
PrunedKinds ==
    {"ImportDeclaration", "ImportEqualsDeclaration", "ExportDeclaration",
     "ExportAssignment"}

\* Whether cb passes the node to getUnwantedTags (lines 74-76).
resolves_All(t, node) == isIdentifier(t, node)

resolves(t, node) == isIdentifier(t, node) /\ ~isDeclaration(t, node)

\* The nodes cb goes on to, in order (lines 81-90).
descends_Everywhere(t, node) ==
    IF isIdentifier(t, node) THEN <<>> ELSE Children(t, node)

descends(t, node) ==
    IF isIdentifier(t, node) \/ t[node].kind \in PrunedKinds
    THEN <<>>
    ELSE Children(t, node)

\* applyWithProgram: parseOptions assigns `options`, then walk starts on the
\* children of the source file.
Apply(args, tree, checker) ==
    /\ options' = parseOptions(options, args)
    /\ ruleArguments' = args
    /\ sourceFile' = tree
    /\ tc' = checker
    /\ todo' = Children(tree, 1)
    /\ failures' = <<>>
    /\ visited' = <<>>
    /\ resolved' = <<>>
    /\ pc' = "walking"
    /\ runs' = runs + 1
    /\ history' = Append(history, args)
    /\ UNCHANGED <<call, ret>>

\* One call of cb, on the next node in traversal order.
Cb ==
    /\ pc = "walking"
    /\ todo # <<>>
    /\ LET node == Head(todo)
           tags == IF resolves(sourceFile, node)
                   THEN getUnwantedTags(sourceFile, tc, options, node)
                   ELSE Undefined
       IN /\ visited' = Append(visited, node)
          /\ resolved' = IF resolves(sourceFile, node)
                         THEN Append(resolved, [node |-> node, read |-> options,
                                                tags |-> tags])
                         ELSE resolved
          /\ IF tags = Crash
             THEN /\ pc' = "crashed"
                  /\ UNCHANGED <<todo, failures>>
             ELSE /\ pc' = pc
                  /\ failures' =
                        IF tags # Undefined
                        THEN Append(failures,
                                 [node |-> node,
                                  failure |-> FAILURE_STRING(sourceFile[node].text,
                                                             tags.value)])
                        ELSE failures
                  /\ todo' = descends(sourceFile, node) \o Tail(todo)
    /\ UNCHANGED <<options, ruleArguments, sourceFile, tc, runs, history, call, ret>>

\* walk returns, and applyWithFunction hands the failures to the host.
WalkReturn ==
    /\ pc = "walking"
    /\ todo = <<>>
    /\ pc' = "done"
    /\ UNCHANGED <<options, ruleArguments, sourceFile, tc, todo, failures,
                   visited, resolved, runs, history, call, ret>>

(***************************************************************************)
(* The inputs of the model: rule arguments, documentation, symbols,        *)
(* signatures, source files and type checkers.                             *)
(***************************************************************************)
Bool(b) == [type |-> "boolean", value |-> b]
Arr(a) == [type |-> "array", value |-> a]
Str(x) == [type |-> "string", chars |-> x]

\* Tag names: A and B are configured by some rule arguments, Z by none.
TagA == <<"A">>
TagB == <<"B">>
TagZ == <<"Z">>

\* ruleArguments: none, no entry at index 1, a list of names at index 1, a
\* string at index 1.
ArgSamples ==
    {Undefined,
     Def(<<Bool(TRUE)>>),
     Def(<<Bool(TRUE), Arr(<<TagA>>)>>),
     Def(<<Bool(TRUE), Arr(<<TagA, TagB>>)>>),
     Def(<<Bool(TRUE), Str(<<"B", "A">>)>>)}

\* What getJsDocTags returns: nothing; A without text; Z, then B with text.
TagSamples ==
    {<<>>,
     <<[name |-> TagA, text |-> Undefined]>>,
     <<[name |-> TagZ, text |-> Def(<<"n">>)],
       [name |-> TagB, text |-> Def(<<" ", "m", " ">>)]>>}

\* What getJsDoc returns: no comment; a comment without tags; a comment with
\* A without text; a comment without tags and one with Z, then B with text.
JsDocSamples ==
    {<<>>,
     <<[tags |-> Undefined]>>,
     <<[tags |-> Def(<<[tagName |-> TagA, comment |-> Undefined]>>)]>>,
     <<[tags |-> Undefined],
       [tags |-> Def(<<[tagName |-> TagZ, comment |-> Def(<<"n">>)],
                       [tagName |-> TagB, comment |-> Def(<<" ", "m", " ">>)]>>)]>>}

\* A declaration of the shape, documented by jsDoc where the language puts
\* the comment: on the variable statement for a variable and for a binding
\* element of its pattern, on the declaration itself otherwise.
VariableOf(jsDoc) ==
    Declaration("VariableDeclaration", <<>>,
        Declaration("VariableDeclarationList", <<>>,
            Declaration("VariableStatement", jsDoc, Undefined)))

BindingOf(host) ==
    Declaration("BindingElement", <<>>,
        Declaration("ObjectBindingPattern", <<>>, host))

DeclarationOf(shape, jsDoc) ==
    CASE shape = "VariableDeclaration" -> VariableOf(jsDoc)
      [] shape = "BindingElement" -> BindingOf(VariableOf(jsDoc))
      [] shape = "NestedBindingElement" -> BindingOf(BindingOf(VariableOf(jsDoc)))
      [] OTHER -> Declaration(shape, jsDoc, Undefined)

DeclarationShapes ==
    FunctionOrMethodKinds \cup
    {"ClassDeclaration", "PropertySignature", "VariableDeclaration",
     "BindingElement", "NestedBindingElement"}

OverloadShapes == {"FunctionDeclaration", "MethodSignature"}

\* symbol.declarations, each documented by one of `docs`.
DeclarationLists(docs) ==
    {Undefined, Def(<<>>)}
    \cup {Def(<<DeclarationOf(k, j)>>) : k \in DeclarationShapes, j \in docs}
    \cup {Def(<<DeclarationOf(k, j1), DeclarationOf(k, j2)>>) :
            k \in OverloadShapes,
            j1 \in {j \in docs : Len(j) <= 1}, j2 \in {j \in docs : Len(j) <= 1}}

Symbol(flags, target, declarations, getJsDocTags) ==
    [flags |-> flags, target |-> target, declarations |-> declarations,
     getJsDocTags |-> getJsDocTags]

\* The symbols of a program whose typescript has getJsDocTags (modern) or
\* has not: a symbol of the first kind answers getJsDocTags, one of the
\* second is documented through its declarations.
PlainSymbols(modern) ==
    IF modern
    THEN {Symbol({}, Undefined, d, Def(g)) :
            d \in DeclarationLists({<<>>}), g \in TagSamples}
    ELSE {Symbol({}, Undefined, d, Undefined) : d \in DeclarationLists(JsDocSamples)}

AliasTargets(modern) ==
    {x \in PlainSymbols(modern) :
        \/ x.declarations = Undefined
        \/ /\ Len(x.declarations.value) = 1
           /\ x.declarations.value[1].kind \in
                  {"VariableDeclaration", "FunctionDeclaration"}}

AliasSymbols(modern) ==
    {Symbol({"Alias"}, x,
            Def(<<Declaration("ImportSpecifier", <<>>, Undefined)>>),
            IF modern THEN Def(<<>>) ELSE Undefined) : x \in AliasTargets(modern)}

Symbols(modern) ==
    {Undefined} \cup PlainSymbols(modern) \cup AliasSymbols(modern)

\* The symbols of the identifiers a source file is not about: a variable,
\* undocumented or documented with the first tagged sample.
OtherSymbols(modern) ==
    IF modern
    THEN {Symbol({}, Undefined, Def(<<VariableOf(<<>>)>>), Def(g)) :
            g \in {<<>>, <<[name |-> TagA, text |-> Undefined]>>}}
    ELSE {Symbol({}, Undefined, Def(<<VariableOf(j)>>), Undefined) :
            j \in {<<>>,
                   <<[tags |-> Def(<<[tagName |-> TagA, comment |-> Undefined]>>)]>>}}

\* The symbols in focus in a source file with a destructuring pattern.
FewSymbols(modern) ==
    {Undefined} \cup OtherSymbols(modern)
    \cup {x \in AliasSymbols(modern) : x.target \in OtherSymbols(modern)}

\* The properties of the type of a destructuring source: absent, or a
\* property signature, undocumented or documented with the second sample.
PropertySymbols(modern) ==
    {Undefined} \cup
    (IF modern
     THEN {Symbol({}, Undefined,
                  Def(<<Declaration("PropertySignature", <<>>, Undefined)>>), Def(g)) :
             g \in {<<>>,
                    <<[name |-> TagZ, text |-> Def(<<"n">>)],
                      [name |-> TagB, text |-> Def(<<" ", "m", " ">>)]>>}}
     ELSE {Symbol({}, Undefined,
                  Def(<<Declaration("PropertySignature", j, Undefined)>>), Undefined) :
             j \in {<<>>,
                    <<[tags |-> Undefined],
                      [tags |-> Def(<<[tagName |-> TagZ, comment |-> Def(<<"n">>)],
                                      [tagName |-> TagB,
                                       comment |-> Def(<<" ", "m", " ">>)]>>)]>>}})

Signature(declaration, getJsDocTags) ==
    [declaration |-> declaration, getJsDocTags |-> getJsDocTags]

Signatures(modern) ==
    {Undefined} \cup
    (IF modern
     THEN {Signature(Declaration("FunctionDeclaration", <<>>, Undefined), Def(g)) :
             g \in TagSamples}
     ELSE {Signature(Undefined, Undefined)}
          \cup {Signature(Declaration("FunctionDeclaration", j, Undefined), Undefined) :
                  j \in JsDocSamples})

(***************************************************************************)
(* Source files. Each is [tree, focus]: the identifiers in `focus` denote  *)
(* one symbol, any of Symbols; every other identifier one of OtherSymbols. *)
(***************************************************************************)
SourceFileNode == Node("SourceFile", 0, "child", <<>>)
Id(parent, slot, text) == Node("Identifier", parent, slot, <<text>>)
Inner(kind, parent, slot) == Node(kind, parent, slot, <<>>)
File(nodes, focus) == [tree |-> <<SourceFileNode>> \o nodes, focus |-> focus]

\* x;
ReferenceFile ==
    File(<<Inner("ExpressionStatement", 1, "child"), Id(2, "expression", "x")>>, {3})

\* f(x);  new f(x);  with the callee in focus, and f(x) with the argument
CallFiles ==
    {File(<<Inner("ExpressionStatement", 1, "child"), Inner(k, 2, "expression"),
            Id(3, "expression", "f"), Id(3, "child", "x")>>, {4}) :
        k \in {"CallExpression", "NewExpression"}}
    \cup {File(<<Inner("ExpressionStatement", 1, "child"),
                 Inner("CallExpression", 2, "expression"),
                 Id(3, "expression", "f"), Id(3, "child", "x")>>, {5})}

\* f`t`;
TaggedTemplateFile ==
    File(<<Inner("ExpressionStatement", 1, "child"),
           Inner("TaggedTemplateExpression", 2, "expression"),
           Id(3, "tag", "f"),
           Inner("NoSubstitutionTemplateLiteral", 3, "template")>>, {4})

\* o.m();  new o.m();  o.m`t`;  with the member in focus, and o.m() with
\* the object
MemberCall(k, focus) ==
    File(<<Inner("ExpressionStatement", 1, "child"), Inner(k, 2, "expression"),
           Inner("PropertyAccessExpression", 3,
                 IF k = "TaggedTemplateExpression" THEN "tag" ELSE "expression"),
           Id(4, "expression", "o"), Id(4, "name", "m")>>, focus)

MemberCallFiles ==
    {MemberCall(k, {6}) :
        k \in {"CallExpression", "NewExpression", "TaggedTemplateExpression"}}
    \cup {MemberCall("CallExpression", {5})}

\* o.p;
MemberFile ==
    File(<<Inner("ExpressionStatement", 1, "child"),
           Inner("PropertyAccessExpression", 2, "expression"),
           Id(3, "expression", "o"), Id(3, "name", "p")>>, {5})

Binding(element) ==
    <<Inner("VariableStatement", 1, "child"),
      Inner("VariableDeclarationList", 2, "declarationList"),
      Inner("VariableDeclaration", 3, "child"),
      Inner("ObjectBindingPattern", 4, "name"),
      Inner("BindingElement", 5, "child")>> \o element \o
    <<Id(4, "initializer", "o")>>

\* const {a: b} = o;  const {a = x} = o;  const {a} = o;
BindingFiles ==
    {File(Binding(<<Id(6, "propertyName", "a"), Id(6, "name", "b")>>), {8}),
     File(Binding(<<Id(6, "name", "a"), Id(6, "initializer", "x")>>), {8}),
     File(Binding(<<Id(6, "name", "a")>>), {7})}

Literal(left, property) ==
    <<Inner("ExpressionStatement", 1, "child"),
      Inner("ParenthesizedExpression", 2, "expression"),
      Node("BinaryExpression", 3, "expression", <<"=">>)>> \o
    (IF left THEN <<>> ELSE <<Id(4, "left", "o")>>) \o
    <<Inner("ObjectLiteralExpression", 4, IF left THEN "left" ELSE "right")>> \o
    property \o
    (IF left THEN <<Id(4, "right", "o")>> ELSE <<>>)

\* ({a: x} = o);  ({a} = o);  (o = {a: x});  (o = {a});
LiteralFiles ==
    {File(Literal(TRUE, <<Inner("PropertyAssignment", 5, "child"),
                          Id(6, "name", "a"), Id(6, "initializer", "x")>>), {8}),
     File(Literal(TRUE, <<Inner("ShorthandPropertyAssignment", 5, "child"),
                          Id(6, "name", "a")>>), {7}),
     File(Literal(FALSE, <<Inner("PropertyAssignment", 6, "child"),
                           Id(7, "name", "a"), Id(7, "initializer", "x")>>), {8}),
     File(Literal(FALSE, <<Inner("ShorthandPropertyAssignment", 6, "child"),
                           Id(7, "name", "a")>>), {8})}

\* ({a: {b: x}} = o);
NestedLiteralFile ==
    File(Literal(TRUE, <<Inner("PropertyAssignment", 5, "child"),
                         Id(6, "name", "a"),
                         Inner("ObjectLiteralExpression", 6, "initializer"),
                         Inner("PropertyAssignment", 8, "child"),
                         Id(9, "name", "b"), Id(9, "initializer", "x")>>), {10})

Use(parent) ==
    <<Inner("ExpressionStatement", 1, "child"), Id(parent, "expression", "a")>>

\* import {a} from "m"; a;   export {a}; a;   export default a; a;
\* import a = b; a;          the binding and its use denote one symbol
ImportExportFiles ==
    {File(<<Inner("ImportDeclaration", 1, "child"), Inner("ImportClause", 2, "importClause"),
            Inner("NamedImports", 3, "namedBindings"),
            Inner("ImportSpecifier", 4, "child"), Id(5, "name", "a")>> \o Use(7),
          {6, 8}),
     File(<<Inner("ExportDeclaration", 1, "child"), Inner("NamedExports", 2, "exportClause"),
            Inner("ExportSpecifier", 3, "child"), Id(4, "name", "a")>> \o Use(6),
          {5, 7}),
     File(<<Inner("ExportAssignment", 1, "child"), Id(2, "expression", "a")>> \o Use(4),
          {3, 5}),
     File(<<Inner("ImportEqualsDeclaration", 1, "child"), Id(2, "name", "a"),
            Id(2, "moduleReference", "b")>> \o Use(5), {3, 6})}

\* The name of a class, an interface, a function, ... alone in its node.
NamedEntityFiles ==
    {File(<<Inner(k, 1, "child"), Id(2, "name", "n")>>, {3}) : k \in NamedEntityKinds}

\* function n() {}  n();   the declaration and a call of it
DeclaredAndCalledFile ==
    File(<<Inner("FunctionDeclaration", 1, "child"), Id(2, "name", "n"),
           Inner("ExpressionStatement", 1, "child"),
           Inner("CallExpression", 4, "expression"), Id(5, "expression", "n")>>, {3, 6})

\* var v = x;  (p = x) => 0;  class { p = x }  enum { M = x }  with the
\* name or the initializer in focus
NamedDeclarationFiles ==
    {File(<<Inner(k, 1, "child"), Id(2, "name", "v"), Id(2, "initializer", "x")>>, {i}) :
        k \in NamedDeclarationKinds \ {"ImportEqualsDeclaration"}, i \in {3, 4}}

SourceFiles ==
    {ReferenceFile, TaggedTemplateFile, MemberFile, NestedLiteralFile,
     DeclaredAndCalledFile}
    \cup CallFiles \cup MemberCallFiles \cup BindingFiles \cup LiteralFiles
    \cup ImportExportFiles \cup NamedEntityFiles \cup NamedDeclarationFiles

Identifiers(t) == {i \in 1..Len(t) : isIdentifier(t, i)}

CallLikes(t) ==
    {i \in 1..Len(t) :
        t[i].kind \in {"CallExpression", "NewExpression", "TaggedTemplateExpression"}}

Patterns(t) ==
    {i \in 1..Len(t) : t[i].kind \in {"ObjectBindingPattern", "ObjectLiteralExpression"}}

\* The names looked up as properties: those of the identifiers under a
\* binding element and of the names of property assignments.
PropertyNames(t) ==
    {t[i].text : i \in {j \in Identifiers(t) :
        \/ t[t[j].parent].kind = "BindingElement"
        \/ /\ t[t[j].parent].kind \in {"PropertyAssignment", "ShorthandPropertyAssignment"}
           /\ t[j].slot = "name"}}

\* The type checkers of a source file: with or without getJsDocTags, the
\* focus symbol, the symbol of the other identifiers, a signature for every
\* call, and the properties of the destructured type.
Checkers(file) ==
    LET t == file.tree
    IN UNION {
         {[resolvedSignature |-> sg,
           symbolAt |-> [i \in Identifiers(t) |-> IF i \in file.focus THEN x ELSE other],
           typeAt |-> [p \in Patterns(t) |-> ty]] :
             x \in IF Patterns(t) = {} THEN Symbols(modern) ELSE FewSymbols(modern),
             other \in OtherSymbols(modern),
             sg \in [CallLikes(t) -> Signatures(modern)],
             ty \in [PropertyNames(t) -> PropertySymbols(modern)]} :
         modern \in BOOLEAN}

NoChecker == [resolvedSignature |-> <<>>, symbolAt |-> <<>>, typeAt |-> <<>>]

(***************************************************************************)
(* Spec: the traversal of one source file, over every source file, type    *)
(* checker and rule arguments of the model.                                *)
(***************************************************************************)
Init ==
    /\ options = Undefined
    /\ ruleArguments = Undefined
    /\ sourceFile = <<SourceFileNode>>
    /\ tc = NoChecker
    /\ todo = <<>>
    /\ failures = <<>>
    /\ visited = <<>>
    /\ resolved = <<>>
    /\ pc = "idle"
    /\ runs = 0
    /\ history = <<>>
    /\ call = Undefined
    /\ ret = Undefined

ApplyWithProgram ==
    /\ pc = "idle"
    /\ \E args \in ArgSamples, file \in SourceFiles :
         \E checker \in Checkers(file) : Apply(args, file.tree, checker)

Next == ApplyWithProgram \/ Cb \/ WalkReturn

Spec == Init /\ [][Next]_vars

(***************************************************************************)
(* SpecRuns: up to MaxRuns traversals one after the other, each of a rule  *)
(* instance with its own arguments. applyWithProgram is synchronous: the   *)
(* next call starts after the walk of the previous one has returned.       *)
(***************************************************************************)
RunFiles == {ReferenceFile, DeclaredAndCalledFile}

RunCheckers(file) ==
    {c \in Checkers(file) :
        /\ \A i \in file.focus : c.symbolAt[i] \in OtherSymbols(TRUE)
        /\ \A i \in Identifiers(file.tree) \ file.focus :
               c.symbolAt[i] = Symbol({}, Undefined, Def(<<VariableOf(<<>>)>>), Def(<<>>))
        /\ \A i \in CallLikes(file.tree) :
               /\ c.resolvedSignature[i] # Undefined
               /\ c.resolvedSignature[i].getJsDocTags # Def(<<>>)}

ApplyWithProgramAgain ==
    /\ pc \in {"idle", "done"}
    /\ runs < MaxRuns
    /\ \E args \in ArgSamples, file \in RunFiles :
         \E checker \in RunCheckers(file) : Apply(args, file.tree, checker)

NextRuns == ApplyWithProgramAgain \/ Cb \/ WalkReturn

SpecRuns == Init /\ [][NextRuns]_vars

(***************************************************************************)
(* SpecPure: FAILURE_STRING and findUnwantedTagsTag applied on their own,  *)
(* and the two as cb chains them (lines 76-78), on every name, text, tag   *)
(* sequence and configured tag list of the bounds.                         *)
(***************************************************************************)
Characters == {" ", "\t", "x"}
Texts == SeqsUpTo(Characters, MaxText)
Names == {<<"f">>, <<"o", "k">>}

\* "a" is the name A in another case.
PureTags ==
    [name : {TagA, TagB, TagZ, <<"a">>},
     text : {Undefined, Def(<<>>), Def(<<"x">>), Def(<<" ">>)}]

ConfigSamples ==
    {[tags |-> <<>>], [tags |-> <<TagA>>], [tags |-> <<TagA, TagB>>],
     [tags |-> <<TagB, TagA>>]}

PureCalls ==
    {[fn |-> "FAILURE_STRING", name |-> n, message |-> m, options |-> [tags |-> <<>>]] :
        n \in Names, m \in Texts}
    \cup {[fn |-> f, name |-> <<"f">>, tags |-> g, options |-> o] :
            f \in {"findUnwantedTagsTag", "report"},
            g \in SeqsUpTo(PureTags, MaxTags), o \in ConfigSamples}

InitPure ==
    /\ call \in PureCalls
    /\ options = call.options
    /\ ruleArguments = Undefined
    /\ sourceFile = <<SourceFileNode>>
    /\ tc = NoChecker
    /\ todo = <<>>
    /\ failures = <<>>
    /\ visited = <<>>
    /\ resolved = <<>>
    /\ pc = "pure"
    /\ runs = 0
    /\ history = <<>>
    /\ ret = Undefined

Return(result) ==
    /\ ret' = result
    /\ pc' = "returned"
    /\ UNCHANGED <<options, ruleArguments, sourceFile, tc, todo, failures,
                   visited, resolved, runs, history, call>>

CallFailureString ==
    /\ pc = "pure"
    /\ call.fn = "FAILURE_STRING"
    /\ Return(Def(FAILURE_STRING(call.name, call.message)))

CallFindUnwantedTagsTag ==
    /\ pc = "pure"
    /\ call.fn = "findUnwantedTagsTag"
    /\ Return(findUnwantedTagsTag(options, call.tags))

\* const tags = ...; if (tags !== undefined) { FAILURE_STRING(node.text, tags) }
CallReport ==
    /\ pc = "pure"
    /\ call.fn = "report"
    /\ LET tags == findUnwantedTagsTag(options, call.tags)
       IN Return(IF tags = Undefined THEN Undefined
                 ELSE Def(FAILURE_STRING(call.name, tags.value)))

NextPure == CallFailureString \/ CallFindUnwantedTagsTag \/ CallReport

SpecPure == InitPure /\ [][NextPure]_vars

(***************************************************************************)
(* The properties. What they say of the documentation of a symbol or a     *)
(* signature, of the configured names and of the tree is stated here on    *)
(* its own, not through the operators of the rule.                         *)
(***************************************************************************)
Min(S) == CHOOSE i \in S : \A j \in S : i <= j
Max(S) == CHOOSE i \in S : \A j \in S : i >= j

\* The text without its leading and trailing white space.
Strip(m) ==
    LET black == {i \in 1..Len(m) : m[i] \notin WhiteSpace}
    IN IF black = {} THEN <<>> ELSE SubSeq(m, Min(black), Max(black))

\* The failure message for an identifier and a match text.
Message(name, m) ==
    <<"Found disallowed tag at ">> \o name \o
        (IF Len(m) = 0 THEN <<".">> ELSE <<":", " ">> \o Strip(m))

\* The tag list a rule is configured with: the entry at index 1 of its
\* arguments, when there is one.
ConfiguredTags(args) ==
    IF args = Undefined THEN <<>>
    ELSE IF Len(args.value) < 2 THEN <<>>
    ELSE LET x == args.value[2]
         IN IF x.type = "array" THEN x.value
            ELSE [i \in 1..Len(x.chars) |-> <<x.chars[i]>>]

\* The text of the first of the tags whose name is configured.
FirstConfigured(tags, names) ==
    LET hits == {i \in 1..Len(tags) : tags[i].name \in Range(names)}
    IN IF hits = {} THEN Undefined
       ELSE IF tags[Min(hits)].text = Undefined THEN Def(<<>>)
       ELSE tags[Min(hits)].text

RECURSIVE TagsOfJsDoc(_)
TagsOfJsDoc(comments) ==
    IF comments = <<>> THEN <<>>
    ELSE (IF Head(comments).tags = Undefined THEN <<>>
          ELSE [i \in 1..Len(Head(comments).tags.value) |->
                   [name |-> Head(comments).tags.value[i].tagName,
                    text |-> Head(comments).tags.value[i].comment]])
         \o TagsOfJsDoc(Tail(comments))

\* Where the documentation of a declaration is written.
RECURSIVE Documented(_)
Documented(d) ==
    IF d.kind \in {"BindingElement", "ObjectBindingPattern", "VariableDeclaration",
                   "VariableDeclarationList"}
    THEN Documented(d.parent)
    ELSE d

RECURSIVE TagsOfDeclarations(_)
TagsOfDeclarations(declarations) ==
    IF declarations = <<>> THEN <<>>
    ELSE TagsOfJsDoc(Documented(Head(declarations)).jsDoc)
         \o TagsOfDeclarations(Tail(declarations))

\* The documentation tags of a symbol and of a signature.
DocumentationTags(symbol) ==
    IF symbol.getJsDocTags # Undefined THEN symbol.getJsDocTags.value
    ELSE IF symbol.declarations = Undefined THEN <<>>
    ELSE TagsOfDeclarations(symbol.declarations.value)

SignatureTags(signature) ==
    IF signature.getJsDocTags # Undefined THEN signature.getJsDocTags.value
    ELSE IF signature.declaration = Undefined THEN <<>>
    ELSE TagsOfJsDoc(signature.declaration.jsDoc)

SymbolHit(symbol) ==
    IF symbol = Undefined THEN Undefined
    ELSE FirstConfigured(DocumentationTags(symbol), ConfiguredTags(ruleArguments))
SignatureHit(signature) ==
    IF signature = Undefined THEN Undefined
    ELSE FirstConfigured(SignatureTags(signature), ConfiguredTags(ruleArguments))

\* The tree.
RECURSIVE UnderImportOrExport(_, _)
UnderImportOrExport(t, n) ==
    /\ n > 1
    /\ \/ t[t[n].parent].kind \in {"ImportDeclaration", "ImportEqualsDeclaration",
                                   "ExportDeclaration", "ExportAssignment"}
       \/ UnderImportOrExport(t, t[n].parent)

\* A declaration site, as the classification reads.
DeclarationSite(t, n) ==
    LET p == t[n].parent
        named == t[n].slot = "name"
    IN \/ t[p].kind \in {"ClassDeclaration", "ClassExpression", "InterfaceDeclaration",
                         "FunctionDeclaration", "FunctionExpression",
                         "MethodDeclaration", "MethodSignature", "GetAccessor",
                         "SetAccessor", "TypeAliasDeclaration", "EnumDeclaration",
                         "ModuleDeclaration", "LabeledStatement", "JsxAttribute",
                         "TypeParameter", "PropertySignature"}
       \/ /\ named
          /\ t[p].kind \in {"VariableDeclaration", "Parameter", "PropertyDeclaration",
                            "EnumMember", "ImportEqualsDeclaration"}
       \/ /\ named
          /\ t[p].kind = "PropertyAssignment"
          /\ ~isReassignmentTarget(t, t[p].parent)
       \/ /\ named
          /\ t[p].kind = "BindingElement"
          /\ \E i \in 1..Len(t) : t[i].parent = p /\ t[i].slot = "propertyName"

Reference(t, n) == isIdentifier(t, n) /\ ~DeclarationSite(t, n)

\* The call, constructor or tagged-template expression whose callee the
\* identifier is, directly or as the name of one property access; 0 if none.
Callee(t, e) ==
    \/ t[t[e].parent].kind \in {"CallExpression", "NewExpression"}
       /\ t[e].slot = "expression"
    \/ t[t[e].parent].kind = "TaggedTemplateExpression" /\ t[e].slot = "tag"

CallOf(t, n) ==
    IF t[t[n].parent].kind = "PropertyAccessExpression" /\ t[n].slot = "name"
    THEN (IF Callee(t, t[n].parent) THEN t[t[n].parent].parent ELSE 0)
    ELSE (IF Callee(t, n) THEN t[n].parent ELSE 0)

SignatureAt(n) ==
    IF CallOf(sourceFile, n) = 0 THEN Undefined
    ELSE tc.resolvedSignature[CallOf(sourceFile, n)]

PropertyAt(pattern, name) ==
    IF name \in DOMAIN tc.typeAt[pattern] THEN tc.typeAt[pattern][name] ELSE Undefined

\* The symbol the resolver looks up for an identifier, before any alias is
\* followed: for an identifier held by a binding element, and for the name
\* of a property assignment or of a shorthand property in a destructuring
\* assignment, the property of that name in the destructured type; for any
\* other, the symbol at its location.
LookedUp(n) ==
    LET t == sourceFile
        p == t[n].parent
    IN IF t[p].kind = "BindingElement" THEN PropertyAt(t[p].parent, t[n].text)
       ELSE IF /\ t[n].slot = "name"
               /\ \/ t[p].kind = "PropertyAssignment"
                  \/ /\ t[p].kind = "ShorthandPropertyAssignment"
                     /\ isInDestructuringAssignment(t, p)
            THEN PropertyAt(t[p].parent, t[n].text)
            ELSE tc.symbolAt[n]

Followed(symbol) ==
    IF symbol # Undefined /\ symbol.flags = {"Alias"} THEN symbol.target ELSE symbol

Denoted(n) == Followed(LookedUp(n))

FirstDeclarationIsFunctionOrMethod(symbol) ==
    /\ symbol.declarations # Undefined
    /\ symbol.declarations.value # <<>>
    /\ Head(symbol.declarations.value).kind \in
           {"FunctionDeclaration", "FunctionExpression", "MethodDeclaration",
            "MethodSignature"}

FailuresAt(n) == {i \in 1..Len(failures) : failures[i].node = n}

ResolvedAt(n) == {i \in 1..Len(resolved) : resolved[i].node = n}

\* Exactly one failure at the identifier, with the message for the text.
FlaggedWith(n, m) ==
    /\ Cardinality(FailuresAt(n)) = 1
    /\ \A i \in FailuresAt(n) : failures[i].failure = Message(sourceFile[n].text, m)

\* What the resolver is to answer for a reference it is called on: the hit of
\* the resolved signature if the identifier is a call target and there is
\* one; otherwise nothing if no symbol is found, or if the identifier is a
\* call target and the first declaration of its symbol is a function or a
\* method; otherwise the hit of the symbol.
Expected(n) ==
    IF SignatureHit(SignatureAt(n)) # Undefined THEN SignatureHit(SignatureAt(n))
    ELSE IF Denoted(n) = Undefined THEN Undefined
    ELSE IF CallOf(sourceFile, n) # 0 /\ FirstDeclarationIsFunctionOrMethod(Denoted(n))
         THEN Undefined
    ELSE SymbolHit(Denoted(n))

Walked == pc = "done"

(***************************************************************************)
(* C1. An identifier at a declaration site is never passed to              *)
(* getUnwantedTags and no failure is ever reported at it, whatever tags    *)
(* its symbol carries.                                                     *)
(***************************************************************************)
C1_DeclarationSiteNeverResolved ==
    \A n \in Identifiers(sourceFile) :
        DeclarationSite(sourceFile, n) => ResolvedAt(n) = {} /\ FailuresAt(n) = {}

\* The walk has passed a declaration site whose symbol carries a configured tag.
C1_Witness ==
    /\ Walked
    /\ \E n \in Identifiers(sourceFile) :
         /\ DeclarationSite(sourceFile, n)
         /\ \E i \in 1..Len(visited) : visited[i] = n
         /\ SymbolHit(Followed(tc.symbolAt[n])) # Undefined

Callable(symbol) ==
    /\ symbol # Undefined
    /\ symbol.declarations # Undefined
    /\ symbol.declarations.value # <<>>
    /\ \A i \in 1..Len(symbol.declarations.value) :
          symbol.declarations.value[i].kind \in
              {"FunctionDeclaration", "FunctionExpression", "MethodDeclaration",
               "MethodSignature"}

C3_CallSitePrecedence ==
    Walked =>
        \A n \in Identifiers(sourceFile) :
            CallOf(sourceFile, n) # 0 /\ ~UnderImportOrExport(sourceFile, n) =>
                /\ (SignatureHit(SignatureAt(n)) # Undefined
                      => FlaggedWith(n, SignatureHit(SignatureAt(n)).value))
                /\ ((/\ SignatureAt(n) # Undefined
                     /\ SignatureHit(SignatureAt(n)) = Undefined
                     /\ Callable(Denoted(n)))
                      => FailuresAt(n) = {})

\* A call resolved to an untagged overload of a callable with two
\* declarations whose aggregate documentation holds a configured tag.
C3_Witness ==
    /\ Walked
    /\ \E n \in Identifiers(sourceFile) :
         /\ CallOf(sourceFile, n) # 0
         /\ ResolvedAt(n) # {}
         /\ SignatureAt(n) # Undefined
         /\ SignatureHit(SignatureAt(n)) = Undefined
         /\ Callable(Denoted(n))
         /\ Len(Denoted(n).declarations.value) = 2
         /\ SymbolHit(Denoted(n)) # Undefined
         /\ FailuresAt(n) = {}

(***************************************************************************)
(* C4, as stated. An identifier whose symbol is an alias of a symbol that  *)
(* carries a configured tag is flagged where the binding is used, inside   *)
(* import and export declarations as well as at its other references.      *)
(***************************************************************************)
AliasOfTagged(n) ==
    /\ LookedUp(n) # Undefined
    /\ LookedUp(n).flags = {"Alias"}
    /\ SymbolHit(LookedUp(n).target) # Undefined

RenamingElements(t) ==
    {e \in 1..Len(t) :
        /\ t[e].kind = "BindingElement"
        /\ \E a, b \in Identifiers(t) :
              /\ t[a].parent = e /\ t[a].slot = "propertyName"
              /\ t[b].parent = e /\ t[b].slot = "name"}

PropertyNameOf(t, e) ==
    CHOOSE a \in Identifiers(t) : t[a].parent = e /\ t[a].slot = "propertyName"

NameOf(t, e) == CHOOSE b \in Identifiers(t) : t[b].parent = e /\ t[b].slot = "name"

C5_DestructuringSourceName ==
    Walked =>
        \A e \in RenamingElements(sourceFile) :
            LET a == PropertyNameOf(sourceFile, e)
                b == NameOf(sourceFile, e)
                hit == SymbolHit(PropertyAt(sourceFile[e].parent, sourceFile[a].text))
            IN /\ Cardinality(ResolvedAt(a)) = 1
               /\ IF hit # Undefined THEN FlaggedWith(a, hit.value)
                  ELSE FailuresAt(a) = {}
               /\ ResolvedAt(b) = {}
               /\ FailuresAt(b) = {}

\* `a` is flagged for the tag of the property, and `b` is not although the
\* variable `b`, the property `b` and the variable `a` are tagged or not
\* independently of the property `a`.
C5_Witness ==
    /\ Walked
    /\ \E e \in RenamingElements(sourceFile) :
         LET a == PropertyNameOf(sourceFile, e)
             b == NameOf(sourceFile, e)
         IN /\ SymbolHit(PropertyAt(sourceFile[e].parent, sourceFile[a].text)) # Undefined
            /\ SymbolHit(PropertyAt(sourceFile[e].parent, sourceFile[b].text)) # Undefined
            /\ SymbolHit(Followed(tc.symbolAt[b])) # Undefined
            /\ SymbolHit(Followed(tc.symbolAt[a])) = Undefined
            /\ FailuresAt(a) # {}
            /\ FailuresAt(b) = {}

(***************************************************************************)
(* C6. FAILURE_STRING(n, m) is `Found disallowed tag at n.` for the empty  *)
(* m and `Found disallowed tag at n: ` followed by m without its leading   *)
(* and trailing white space otherwise, also when nothing is left of m; a   *)
(* matched tag without text is reported in the `.` form.                   *)
(***************************************************************************)
C6_FailureMessage ==
    pc = "returned" =>
        /\ call.fn = "FAILURE_STRING" =>
              ret = Def(Message(call.name, call.message))
        /\ call.fn = "report" =>
              LET hits == {i \in 1..Len(call.tags) :
                              call.tags[i].name \in Range(options.tags)}
              IN IF hits = {} THEN ret = Undefined
                 ELSE IF call.tags[Min(hits)].text = Undefined
                 THEN ret = Def(<<"Found disallowed tag at ">> \o call.name \o <<".">>)
                 ELSE ret = Def(Message(call.name, call.tags[Min(hits)].text.value))

\* A text of white space only, reported in the `: ` form with nothing after it.
C6_Witness ==
    /\ pc = "returned"
    /\ call.fn = "FAILURE_STRING"
    /\ Len(call.message) = 2
    /\ \A i \in 1..Len(call.message) : call.message[i] \in WhiteSpace
    /\ ret = Def(<<"Found disallowed tag at ">> \o call.name \o <<":", " ">>)

(***************************************************************************)
(* C7. No traversal reaches a crash: every call of getUnwantedTags         *)
(* returns, with no match whenever the lookups yield nothing (no resolved  *)
(* signature or one without tags, and no symbol or one without             *)
(* declarations or documentation tags) or the rule arguments hold no tag   *)
(* list, and the walk goes on to every node outside the import and export  *)
(* subtrees.                                                               *)
(***************************************************************************)
NothingFound(n) ==
    /\ \/ SignatureAt(n) = Undefined
       \/ SignatureTags(SignatureAt(n)) = <<>>
    /\ \/ Denoted(n) = Undefined
       \/ DocumentationTags(Denoted(n)) = <<>>

Reached(t) ==
    {n \in 2..Len(t) :
        /\ ~UnderImportOrExport(t, n)
        /\ ~isIdentifier(t, t[n].parent)}

C7_ResolverNeverRaises ==
    /\ pc # "crashed"
    /\ \A i \in 1..Len(resolved) :
          /\ resolved[i].tags # Crash
          /\ NothingFound(resolved[i].node) \/ ConfiguredTags(ruleArguments) = <<>>
                => resolved[i].tags = Undefined
    /\ Walked => Range(visited) = Reached(sourceFile)

\* A call target for which neither a signature nor a symbol is found, and a
\* node the walk went on to after it.
C7_Witness ==
    /\ Walked
    /\ \E i \in 1..Len(resolved) :
         LET n == resolved[i].node
         IN /\ CallOf(sourceFile, n) # 0
            /\ SignatureAt(n) = Undefined
            /\ LookedUp(n) = Undefined
            /\ resolved[i].tags = Undefined
            /\ visited[Len(visited)] # n

(***************************************************************************)
(* C8. findUnwantedTagsTag returns the text of the first fetched tag whose *)
(* name equals a configured name, the empty string if that tag has no      *)
(* text, and no match if and only if no fetched name is configured.        *)
(***************************************************************************)
C8_FirstMatchInDocumentationOrder ==
    pc = "returned" /\ call.fn = "findUnwantedTagsTag" =>
        LET hits == {i \in 1..Len(call.tags) :
                        \E k \in 1..Len(options.tags) :
                            call.tags[i].name = options.tags[k]}
        IN /\ hits = {} <=> ret = Undefined
           /\ hits # {} =>
                 ret = IF call.tags[Min(hits)].text = Undefined THEN Def(<<>>)
                       ELSE call.tags[Min(hits)].text

\* The second configured name is fetched before the first, with another text.
C8_Witness ==
    /\ pc = "returned"
    /\ call.fn = "findUnwantedTagsTag"
    /\ options.tags = <<TagA, TagB>>
    /\ Len(call.tags) = 2
    /\ call.tags[1].name = TagB
    /\ call.tags[2].name = TagA
    /\ call.tags[1].text # call.tags[2].text
    /\ ret = call.tags[1].text

(***************************************************************************)
(* C9. An identifier that is the initializer of a binding element, `x` in  *)
(* `{a = x}`, is resolved by the symbol at its location: it is flagged     *)
(* exactly when the symbol it references carries a configured tag.         *)
(***************************************************************************)
C9_InitializerBySymbolAtLocation ==
    Walked =>
        \A n \in Identifiers(sourceFile) :
            /\ sourceFile[sourceFile[n].parent].kind = "BindingElement"
            /\ sourceFile[n].slot = "initializer"
            => (FailuresAt(n) # {}
                    <=> SymbolHit(Followed(tc.symbolAt[n])) # Undefined)

(***************************************************************************)
(* C10. During a traversal `options` holds the tag list of the rule        *)
(* arguments of the call that started it, and every match test of the      *)
(* traversal reads that list, whatever the earlier calls configured.       *)
(***************************************************************************)
C10_OptionsOfThisInvocation ==
    pc \in {"walking", "done"} =>
        /\ ruleArguments = history[Len(history)]
        /\ options = [tags |-> ConfiguredTags(ruleArguments)]
        /\ \A i \in 1..Len(resolved) :
              resolved[i].read = [tags |-> ConfiguredTags(ruleArguments)]

\* A second traversal, configured otherwise than the first, has tested a match.
C10_Witness ==
    /\ Walked
    /\ Len(history) >= 2
    /\ ConfiguredTags(history[Len(history) - 1]) # <<>>
    /\ ConfiguredTags(history[Len(history)]) # ConfiguredTags(history[Len(history) - 1])
    /\ resolved # <<>>

====
